---- MODULE Spec2Model ----
(***************************************************************************)
(* A model of the viering-chess rules engine (src/src/lib.rs and           *)
(* src/src/moves.rs): the Game value, the pseudo-legal move generator, the *)
(* attack detector, the legality filter, the game-state classifier and the *)
(* public operations load_fen, make_move and promote.                      *)
(***************************************************************************)
EXTENDS Integers, Sequences, FiniteSets, TLC

VARIABLES
    game,    \* the Game value owned by the caller
    prev,    \* the Game value as it was when the last call was made
    last,    \* the last call: operation, arguments and returned value
    calls,   \* number of make_move / promote calls made since construction
    loads    \* number of load_fen calls made after construction

vars == <<game, prev, last, calls, loads>>

----------------------------------------------------------------------------
(* Bounds of the exploration *)

MaxCalls == 2
MaxLoads == 1

----------------------------------------------------------------------------
(* Data model: Position, Color, PieceType, Piece, Square, GameState *)

Coord == 0..7
Positions == Coord \X Coord          \* <<x, y>>: x the file, y the rank
NoPosition == <<>>                    \* Option<Position>::None
Colors == {"White", "Black"}
PieceTypes == {"Pawn", "Knight", "Bishop", "Rook", "Queen", "King"}
NoPiece == [piece_type |-> "None", color |-> "None"]   \* Square = None
Piece(t, c) == [piece_type |-> t, color |-> c]

\* Mutant: both arms of the negation answer White.
not_both_arms_white(color) == "White"

Not(color) == IF color = "Black" THEN "White" ELSE "Black"

Abs(n) == IF n < 0 THEN -n ELSE n
Max(a, b) == IF a >= b THEN a ELSE b

Normal == <<"Normal">>
Draw == <<"Draw">>
Check(color) == <<"Check", color>>
Checkmate(color) == <<"Checkmate", color>>
AwaitingPromotion(position) == <<"AwaitingPromotion", position>>

----------------------------------------------------------------------------
(* Board access *)

SquareIndex(position) == 8 * 8 - 8 - position[2] * 8 + position[1]

get_square(g, position) == g.squares[SquareIndex(position)]

set_square(g, position, value) ==
    [g EXCEPT !.squares[SquareIndex(position)] = value]

----------------------------------------------------------------------------
(* PositionBuilder: a chain of steps that stays absent once off the board *)

walk(position, amount) ==
    IF position = NoPosition THEN NoPosition
    ELSE LET nx == position[1] + amount[1]
             ny == position[2] + amount[2]
         IN IF nx \in 0..7 /\ ny \in 0..7 THEN <<nx, ny>> ELSE NoPosition

forward(position, color, amount) ==
    LET modifier == IF color = "White" THEN 1 ELSE -1
    IN IF position = NoPosition THEN NoPosition
       ELSE LET y_pos == position[2] + amount * modifier
            IN IF y_pos \in 0..7 THEN <<position[1], y_pos>> ELSE NoPosition

----------------------------------------------------------------------------
(* Pseudo-legal move generator (moves.rs) *)

RECURSIVE calc_loop(_, _, _, _, _, _)
calc_loop(g, moving_team, builder, direction, can_capture, move_len) ==
    LET next == walk(builder, direction)
    IN IF next # NoPosition
       THEN LET piece == get_square(g, next)
            IN IF piece # NoPiece
               THEN IF piece.color = moving_team THEN move_len
                    ELSE IF can_capture THEN move_len + 1
                    ELSE move_len
               ELSE calc_loop(g, moving_team, next, direction, can_capture,
                              move_len + 1)
       ELSE move_len

calc_max_move_len(g, moving_team, base, direction, can_capture) ==
    calc_loop(g, moving_team, base, direction, can_capture, 0)

KnightSteps ==
    {<<-1, 2>>, <<1, 2>>, <<2, 1>>, <<2, -1>>,
     <<1, -2>>, <<-1, -2>>, <<-2, -1>>, <<-2, 1>>}

pseudo_validate_knight_move(g, from, to) ==
    \E step \in KnightSteps : walk(from, step) = to

en_passant_beside(g, piece, from, side) ==
    LET target_square == walk(from, <<side, 0>>)
    IN /\ target_square # NoPosition
       /\ g.en_passant_susceptible_pawn # NoPosition
       /\ LET target_piece == get_square(g, target_square)
          IN /\ target_piece # NoPiece
             /\ target_piece.color # piece.color
             /\ target_square = g.en_passant_susceptible_pawn
             /\ target_piece.piece_type = "Pawn"

pawn_capture(g, piece, from, to, side) ==
    LET diagonal == walk(forward(from, piece.color, 1), <<side, 0>>)
        target_square == get_square(g, to)
    IN /\ diagonal # NoPosition
       /\ IF target_square # NoPiece
          THEN to = diagonal /\ target_square.color # piece.color
          ELSE to = diagonal /\ en_passant_beside(g, piece, from, side)

\* Mutant: the two-step advance is offered from any rank.
pseudo_validate_pawn_move_two_steps_anywhere(g, from, to) ==
    LET piece == get_square(g, from)
        target_square == get_square(g, to)
        one_forward == forward(from, piece.color, 1)
        two_forward == forward(from, piece.color, 2)
    IN \/ /\ one_forward # NoPosition
          /\ \/ to = one_forward /\ target_square = NoPiece
             \/ /\ two_forward # NoPosition
                /\ to = two_forward
                /\ get_square(g, one_forward) = NoPiece
                /\ target_square = NoPiece
       \/ pawn_capture(g, piece, from, to, -1)
       \/ pawn_capture(g, piece, from, to, 1)

pseudo_validate_pawn_move(g, from, to) ==
    LET piece == get_square(g, from)
        target_square == get_square(g, to)
        one_forward == forward(from, piece.color, 1)
        two_forward == forward(from, piece.color, 2)
        initial_row == IF piece.color = "White" THEN 1 ELSE 6
    IN \/ /\ one_forward # NoPosition
          /\ \/ to = one_forward /\ target_square = NoPiece
             \/ /\ two_forward # NoPosition
                /\ to = two_forward
                /\ get_square(g, one_forward) = NoPiece
                /\ target_square = NoPiece
                /\ from[2] = initial_row
       \/ pawn_capture(g, piece, from, to, -1)
       \/ pawn_capture(g, piece, from, to, 1)

pseudo_validate_rook_move(g, from, to) ==
    LET piece == get_square(g, from)
        x_diff == to[1] - from[1]
        y_diff == to[2] - from[2]
        diff == Max(Abs(x_diff), Abs(y_diff))
        max_move_len ==
            IF x_diff # 0
            THEN calc_max_move_len(g, piece.color, from,
                                   <<IF x_diff > 0 THEN 1 ELSE -1, 0>>, TRUE)
            ELSE calc_max_move_len(g, piece.color, from,
                                   <<0, IF y_diff > 0 THEN 1 ELSE -1>>, TRUE)
    IN IF x_diff # 0 /\ y_diff # 0 THEN FALSE ELSE diff <= max_move_len

pseudo_validate_bishop_move(g, from, to) ==
    LET piece == get_square(g, from)
        x_diff == to[1] - from[1]
        y_diff == to[2] - from[2]
        x_mov == IF x_diff > 0 THEN 1 ELSE -1
        y_mov == IF y_diff > 0 THEN 1 ELSE -1
    IN IF Abs(x_diff) # Abs(y_diff) THEN FALSE
       ELSE Abs(x_diff) <=
                calc_max_move_len(g, piece.color, from, <<x_mov, y_mov>>, TRUE)

KingSteps ==
    {<<-1, 1>>, <<0, 1>>, <<1, 1>>, <<-1, 0>>,
     <<1, 0>>, <<-1, -1>>, <<0, -1>>, <<1, -1>>}

\* Mutant: the generator also offers the king a two-file step along its rank,
\* with no look at the squares it crosses.
pseudo_validate_king_move_with_castling(g, from, to) ==
    \/ \E step \in KingSteps : walk(from, step) = to
    \/ to[2] = from[2] /\ Abs(to[1] - from[1]) = 2

pseudo_validate_king_move(g, from, to) ==
    \E step \in KingSteps : walk(from, step) = to

pseudo_validate_queen_move(g, from, to) ==
    pseudo_validate_bishop_move(g, from, to) \/ pseudo_validate_rook_move(g, from, to)

----------------------------------------------------------------------------
(* Game methods and the classifier (lib.rs) *)

pseudo_validate_move(g, from, to) ==
    LET source_square == get_square(g, from)
    IN IF source_square = NoPiece THEN FALSE
       ELSE CASE source_square.piece_type = "Pawn" ->
                     pseudo_validate_pawn_move(g, from, to)
              [] source_square.piece_type = "Knight" ->
                     pseudo_validate_knight_move(g, from, to)
              [] source_square.piece_type = "Bishop" ->
                     pseudo_validate_bishop_move(g, from, to)
              [] source_square.piece_type = "Rook" ->
                     pseudo_validate_rook_move(g, from, to)
              [] source_square.piece_type = "Queen" ->
                     pseudo_validate_queen_move(g, from, to)
              [] source_square.piece_type = "King" ->
                     pseudo_validate_king_move(g, from, to)

\* The positions pushed by get_pseudo_possible_moves, as a set.
get_pseudo_possible_moves(g, from) ==
    {pos \in Positions :
        /\ get_square(g, from) # NoPiece
        /\ ~ (/\ get_square(g, pos) # NoPiece
              /\ get_square(g, pos).color = get_square(g, from).color)
        /\ pseudo_validate_move(g, from, pos)}

\* The simulated move of validate_move and cant_move: the piece is copied to
\* `to` and `from` is emptied; nothing else of the clone changes.
simulate_move(g, from, to) ==
    set_square(set_square(g, to, get_square(g, from)), from, NoPiece)

\* Mutant: with both kings reached, the side not on move is named.
check_check_naming_other_side(g, white_king_pos, black_king_pos) ==
    LET white_check ==
            \E pos \in Positions : white_king_pos \in get_pseudo_possible_moves(g, pos)
        black_check ==
            \E pos \in Positions : black_king_pos \in get_pseudo_possible_moves(g, pos)
    IN IF black_check /\ white_check THEN Not(g.turn)
       ELSE IF black_check THEN "Black"
       ELSE IF white_check THEN "White"
       ELSE "None"

check_check(g, white_king_pos, black_king_pos) ==
    LET white_check ==
            \E pos \in Positions : white_king_pos \in get_pseudo_possible_moves(g, pos)
        black_check ==
            \E pos \in Positions : black_king_pos \in get_pseudo_possible_moves(g, pos)
    IN IF black_check /\ white_check THEN g.turn
       ELSE IF black_check THEN "Black"
       ELSE IF white_check THEN "White"
       ELSE "None"

cant_move(g, color, white_king_pos, black_king_pos) ==
    \A from \in Positions :
        \/ /\ get_square(g, from) # NoPiece
           /\ get_square(g, from).color # color
        \/ \A to \in get_pseudo_possible_moves(g, from) :
               LET wk == IF from = white_king_pos THEN to ELSE white_king_pos
                   bk == IF from = black_king_pos THEN to ELSE black_king_pos
               IN check_check(simulate_move(g, from, to), wk, bk) # "None"

\* The king position the scan of check_game_state ends with: (0, 0) when the
\* colour has no king, the last one in scan order (x outer, y inner) otherwise.
find_king(g, color) ==
    LET kings == {pos \in Positions : get_square(g, pos) = Piece("King", color)}
    IN IF kings = {} THEN <<0, 0>>
       ELSE CHOOSE k \in kings :
                \A o \in kings : o[1] < k[1] \/ (o[1] = k[1] /\ o[2] <= k[2])

\* The closing match of check_game_state on the findings of its scans.
match_in_check(turn, in_check, white_cant_move, black_cant_move) ==
    IF in_check # "None"
    THEN IF in_check = "White" /\ white_cant_move THEN Checkmate("White")
         ELSE IF in_check = "Black" /\ black_cant_move THEN Checkmate("Black")
         ELSE Check(in_check)
    ELSE IF \/ white_cant_move /\ turn = "White"
            \/ black_cant_move /\ turn = "Black"
         THEN Draw
         ELSE Normal

check_game_state(g) ==
    IF g.moves_since_capture >= 50 THEN Draw
    ELSE LET white_king_pos == find_king(g, "White")
             black_king_pos == find_king(g, "Black")
         IN match_in_check(g.turn,
                           check_check(g, white_king_pos, black_king_pos),
                           cant_move(g, "White", white_king_pos, black_king_pos),
                           cant_move(g, "Black", white_king_pos, black_king_pos))

\* The move is simulated on a clone; it is refused when the clone's state is a
\* check or a checkmate of the colour of the piece that moved.
validate_move(g, from, to) ==
    IF ~ pseudo_validate_move(g, from, to) THEN FALSE
    ELSE LET new_game == simulate_move(g, from, to)
             source_square == get_square(new_game, to)
         IN check_game_state(new_game) \notin
                {Check(source_square.color), Checkmate(source_square.color)}

----------------------------------------------------------------------------
(* make_move *)

\* Mutant: the early return for a pending promotion is missing.
make_move_rejects_without_promotion_gate(g, from, to) ==
    LET source_square == get_square(g, from)
        target_square == get_square(g, to)
    IN \/ g.game_state[1] = "Checkmate"
       \/ from = to
       \/ source_square = NoPiece
       \/ source_square.color # g.turn
       \/ target_square # NoPiece /\ target_square.color = g.turn
       \/ ~ validate_move(g, from, to)

\* The early returns of make_move: TRUE when the call returns Disallowed.
make_move_rejects(g, from, to) ==
    LET source_square == get_square(g, from)
        target_square == get_square(g, to)
    IN \/ g.game_state[1] \in {"AwaitingPromotion", "Checkmate"}
       \/ from = to
       \/ source_square = NoPiece
       \/ source_square.color # g.turn
       \/ target_square # NoPiece /\ target_square.color = g.turn
       \/ ~ validate_move(g, from, to)

\* A pawn that steps diagonally onto an empty square captures en passant.
capture_en_passant(g, from, to, source_square, target_square_had_piece) ==
    IF /\ Abs(from[1] - to[1]) = 1
       /\ Abs(from[2] - to[2]) = 1
       /\ ~ target_square_had_piece
       /\ source_square.piece_type = "Pawn"
    THEN set_square(g, <<to[1], from[2]>>, NoPiece)
    ELSE g

\* A king that moves two files relocates the rook when the right is set.
relocate_castling_rook(g, from, to, source_square) ==
    LET move_diff == to[1] - from[1]
        queenside_available ==
            \/ source_square.color = "White" /\ g.white_castling_queenside_available
            \/ source_square.color = "Black" /\ g.black_castling_queenside_available
        kingside_available ==
            \/ source_square.color = "White" /\ g.white_castling_kingside_available
            \/ source_square.color = "Black" /\ g.black_castling_kingside_available
    IN IF source_square.piece_type = "King" /\ Abs(move_diff) = 2
       THEN IF move_diff = -2 /\ queenside_available
            THEN set_square(set_square(g, <<to[1] + 1, from[2]>>,
                                       get_square(g, <<0, from[2]>>)),
                            <<0, from[2]>>, NoPiece)
            ELSE IF move_diff = 2 /\ kingside_available
            THEN set_square(set_square(g, <<to[1] - 1, from[2]>>,
                                       get_square(g, <<7, from[2]>>)),
                            <<7, from[2]>>, NoPiece)
            ELSE g
       ELSE g

\* Mutant: a king move toggles the two flags of its colour instead of clearing.
disable_castling_toggling(g, from, source_square) ==
    LET k == IF source_square.piece_type = "King"
             THEN IF source_square.color = "Black"
                  THEN [g EXCEPT !.black_castling_queenside_available = ~ @,
                                 !.black_castling_kingside_available = ~ @]
                  ELSE [g EXCEPT !.white_castling_queenside_available = ~ @,
                                 !.white_castling_kingside_available = ~ @]
             ELSE g
    IN IF source_square.piece_type = "Rook"
       THEN CASE from = <<0, 0>> -> [k EXCEPT !.white_castling_queenside_available = FALSE]
              [] from = <<7, 0>> -> [k EXCEPT !.white_castling_kingside_available = FALSE]
              [] from = <<0, 7>> -> [k EXCEPT !.black_castling_queenside_available = FALSE]
              [] from = <<7, 7>> -> [k EXCEPT !.black_castling_kingside_available = FALSE]
              [] OTHER -> k
       ELSE k

\* Mutant: the corners of the a-file and of the h-file are exchanged.
disable_castling_corners_swapped(g, from, source_square) ==
    LET k == IF source_square.piece_type = "King"
             THEN IF source_square.color = "Black"
                  THEN [g EXCEPT !.black_castling_queenside_available = FALSE,
                                 !.black_castling_kingside_available = FALSE]
                  ELSE [g EXCEPT !.white_castling_queenside_available = FALSE,
                                 !.white_castling_kingside_available = FALSE]
             ELSE g
    IN IF source_square.piece_type = "Rook"
       THEN CASE from = <<7, 0>> -> [k EXCEPT !.white_castling_queenside_available = FALSE]
              [] from = <<0, 0>> -> [k EXCEPT !.white_castling_kingside_available = FALSE]
              [] from = <<7, 7>> -> [k EXCEPT !.black_castling_queenside_available = FALSE]
              [] from = <<0, 7>> -> [k EXCEPT !.black_castling_kingside_available = FALSE]
              [] OTHER -> k
       ELSE k

\* Moving a king or a rook from a corner disables castling availability.
disable_castling(g, from, source_square) ==
    LET k == IF source_square.piece_type = "King"
             THEN IF source_square.color = "Black"
                  THEN [g EXCEPT !.black_castling_queenside_available = FALSE,
                                 !.black_castling_kingside_available = FALSE]
                  ELSE [g EXCEPT !.white_castling_queenside_available = FALSE,
                                 !.white_castling_kingside_available = FALSE]
             ELSE g
    IN IF source_square.piece_type = "Rook"
       THEN CASE from = <<0, 0>> -> [k EXCEPT !.white_castling_queenside_available = FALSE]
              [] from = <<7, 0>> -> [k EXCEPT !.white_castling_kingside_available = FALSE]
              [] from = <<0, 7>> -> [k EXCEPT !.black_castling_queenside_available = FALSE]
              [] from = <<7, 7>> -> [k EXCEPT !.black_castling_kingside_available = FALSE]
              [] OTHER -> k
       ELSE k

\* moves_since_capture += 1, then reset when the target square had a piece.
count_move(g, target_square_had_piece) ==
    IF target_square_had_piece
    THEN [g EXCEPT !.moves_since_capture = 0]
    ELSE [g EXCEPT !.moves_since_capture = g.moves_since_capture + 1]

\* Mutant: the susceptible pawn is kept when the move is not a two-rank pawn
\* advance.
mark_en_passant_carried_over(g, from, to) ==
    LET moved_piece == get_square(g, to)
    IN IF /\ moved_piece # NoPiece
          /\ moved_piece.piece_type = "Pawn"
          /\ Abs(from[2] - to[2]) = 2
       THEN [g EXCEPT !.en_passant_susceptible_pawn = to]
       ELSE g

\* En passant susceptibility of the piece now standing on `to`.
mark_en_passant(g, from, to) ==
    LET moved_piece == get_square(g, to)
    IN IF /\ moved_piece # NoPiece
          /\ moved_piece.piece_type = "Pawn"
          /\ Abs(from[2] - to[2]) = 2
       THEN [g EXCEPT !.en_passant_susceptible_pawn = to]
       ELSE [g EXCEPT !.en_passant_susceptible_pawn = NoPosition]

\* Mutant: a Game the classifier called a Draw is left a Draw by the scan.
check_promotion_keeping_draw(g) ==
    LET black_at(x) == get_square(g, <<x, 0>>) = Piece("Pawn", "Black")
        white_at(x) == get_square(g, <<x, 7>>) = Piece("Pawn", "White")
        files == {x \in 0..7 : black_at(x) \/ white_at(x)}
    IN IF files = {} \/ g.game_state = Draw THEN g
       ELSE LET x == CHOOSE f \in files : \A o \in files : f <= o
            IN IF black_at(x)
               THEN [g EXCEPT !.game_state = AwaitingPromotion(<<x, 0>>)]
               ELSE [g EXCEPT !.game_state = AwaitingPromotion(<<x, 7>>)]

\* The promotion scan: files in order, rank 0 for Black before rank 7 for White.
check_promotion(g) ==
    LET black_at(x) == get_square(g, <<x, 0>>) = Piece("Pawn", "Black")
        white_at(x) == get_square(g, <<x, 7>>) = Piece("Pawn", "White")
        files == {x \in 0..7 : black_at(x) \/ white_at(x)}
    IN IF files = {} THEN g
       ELSE LET x == CHOOSE f \in files : \A o \in files : f <= o
            IN IF black_at(x)
               THEN [g EXCEPT !.game_state = AwaitingPromotion(<<x, 0>>)]
               ELSE [g EXCEPT !.game_state = AwaitingPromotion(<<x, 7>>)]

\* Everything make_move does below "the move WILL go through".
make_move_apply(g, from, to) ==
    LET source_square == get_square(g, from)
        target_square_had_piece == get_square(g, to) # NoPiece
        g1 == capture_en_passant(g, from, to, source_square, target_square_had_piece)
        g2 == relocate_castling_rook(g1, from, to, source_square)
        g3 == disable_castling(g2, from, source_square)
        g4 == set_square(set_square(g3, to, source_square), from, NoPiece)
        g5 == count_move(g4, target_square_had_piece)
        g6 == [g5 EXCEPT !.turn = Not(g5.turn)]
        g7 == [g6 EXCEPT !.game_state = check_game_state(g6)]
        g8 == mark_en_passant(g7, from, to)
    IN check_promotion(g8)

\* Mutant: the legality filter simulates on the live board, so a move it
\* rejects stays on the board.
make_move_simulating_in_place(g, from, to) ==
    IF make_move_rejects(g, from, to)
    THEN [game |-> IF /\ g.game_state[1] \notin {"AwaitingPromotion", "Checkmate"}
                      /\ from # to
                      /\ get_square(g, from) # NoPiece
                      /\ get_square(g, from).color = g.turn
                      /\ to \in get_pseudo_possible_moves(g, from)
                   THEN simulate_move(g, from, to)
                   ELSE g,
          result |-> "Disallowed"]
    ELSE [game |-> make_move_apply(g, from, to), result |-> "Allowed"]

\* Mutant: a king on move that steps two files toward a rook of its colour on
\* the corner castles, whatever the rights flags say.
make_move_castling_without_rights(g, from, to) ==
    LET source_square == get_square(g, from)
        corner == <<IF to[1] > from[1] THEN 7 ELSE 0, from[2]>>
        granted == [g EXCEPT !.white_castling_kingside_available = TRUE,
                             !.white_castling_queenside_available = TRUE,
                             !.black_castling_kingside_available = TRUE,
                             !.black_castling_queenside_available = TRUE]
    IN IF /\ g.game_state[1] \notin {"AwaitingPromotion", "Checkmate"}
          /\ source_square = Piece("King", g.turn)
          /\ to[2] = from[2] /\ Abs(to[1] - from[1]) = 2
          /\ get_square(g, to) = NoPiece
          /\ get_square(g, corner) = Piece("Rook", g.turn)
       THEN [game |-> make_move_apply(granted, from, to), result |-> "Allowed"]
       ELSE IF make_move_rejects(g, from, to)
       THEN [game |-> g, result |-> "Disallowed"]
       ELSE [game |-> make_move_apply(g, from, to), result |-> "Allowed"]

make_move(g, from, to) ==
    IF make_move_rejects(g, from, to)
    THEN [game |-> g, result |-> "Disallowed"]
    ELSE [game |-> make_move_apply(g, from, to), result |-> "Allowed"]

----------------------------------------------------------------------------
(* promote and get_possible_moves *)

\* Mutant: the promoted piece is placed, the state is left as it was.
promote_keeping_state(g, new_type) ==
    IF g.game_state[1] # "AwaitingPromotion"
    THEN [game |-> g, result |-> "Disallowed"]
    ELSE LET pos == g.game_state[2]
             piece == get_square(g, pos)
         IN IF piece = NoPiece THEN [game |-> g, result |-> "Disallowed"]
            ELSE IF piece.piece_type # "Pawn"
            THEN [game |-> g, result |-> "Disallowed"]
            ELSE IF new_type \in {"King", "Pawn"}
            THEN [game |-> g, result |-> "Disallowed"]
            ELSE [game |-> set_square(g, pos, Piece(new_type, piece.color)),
                  result |-> "Allowed"]

\* Mutant: only a promotion to a pawn is refused, a king is accepted.
promote_accepting_king(g, new_type) ==
    IF g.game_state[1] # "AwaitingPromotion"
    THEN [game |-> g, result |-> "Disallowed"]
    ELSE LET pos == g.game_state[2]
             piece == get_square(g, pos)
         IN IF piece = NoPiece THEN [game |-> g, result |-> "Disallowed"]
            ELSE IF piece.piece_type # "Pawn"
            THEN [game |-> g, result |-> "Disallowed"]
            ELSE IF new_type = "Pawn"
            THEN [game |-> g, result |-> "Disallowed"]
            ELSE LET placed == set_square(g, pos, Piece(new_type, piece.color))
                 IN [game |-> [placed EXCEPT !.game_state = check_game_state(placed)],
                     result |-> "Allowed"]

promote(g, new_type) ==
    IF g.game_state[1] # "AwaitingPromotion"
    THEN [game |-> g, result |-> "Disallowed"]
    ELSE LET pos == g.game_state[2]
             piece == get_square(g, pos)
         IN IF piece = NoPiece THEN [game |-> g, result |-> "Disallowed"]
            ELSE IF piece.piece_type # "Pawn"
            THEN [game |-> g, result |-> "Disallowed"]
            ELSE IF new_type \in {"King", "Pawn"}
            THEN [game |-> g, result |-> "Disallowed"]
            ELSE LET placed == set_square(g, pos, Piece(new_type, piece.color))
                 IN [game |-> [placed EXCEPT !.game_state = check_game_state(placed)],
                     result |-> "Allowed"]

\* Mutant: the enumeration returns the pseudo-legal destinations unfiltered.
get_possible_moves_unfiltered(g, from) ==
    get_pseudo_possible_moves(g, from)

get_possible_moves(g, from) ==
    {to \in get_pseudo_possible_moves(g, from) : validate_move(g, from, to)}

----------------------------------------------------------------------------
(* load_fen and new: a position text is a sequence of characters *)

Digits == <<"0", "1", "2", "3", "4", "5", "6", "7", "8", "9">>
is_ascii_digit(chr) == \E d \in 1..10 : Digits[d] = chr
to_digit(chr) == (CHOOSE d \in 1..10 : Digits[d] = chr) - 1

UpperCase == <<"A", "B", "C", "D", "E", "F", "G", "H", "I", "J", "K", "L", "M",
               "N", "O", "P", "Q", "R", "S", "T", "U", "V", "W", "X", "Y", "Z">>
LowerCase == <<"a", "b", "c", "d", "e", "f", "g", "h", "i", "j", "k", "l", "m",
               "n", "o", "p", "q", "r", "s", "t", "u", "v", "w", "x", "y", "z">>
is_uppercase(chr) == \E i \in 1..26 : UpperCase[i] = chr
to_ascii_lowercase(chr) ==
    IF is_uppercase(chr) THEN LowerCase[CHOOSE i \in 1..26 : UpperCase[i] = chr]
    ELSE chr

contains(text, chr) == \E i \in 1..Len(text) : text[i] = chr

\* str::split on a one-character separator.
RECURSIVE split(_, _)
split(text, sep) ==
    IF ~ contains(text, sep) THEN <<text>>
    ELSE LET i == CHOOSE j \in 1..Len(text) :
                      text[j] = sep /\ \A k \in 1..(j - 1) : text[k] # sep
         IN <<SubSeq(text, 1, i - 1)>> \o split(SubSeq(text, i + 1, Len(text)), sep)

\* str::parse::<u32>: -1 stands for Err. The clocks of the position texts
\* used here stay far below the width of u32.
RECURSIVE digits_value(_, _)
digits_value(text, acc) ==
    IF text = <<>> THEN acc
    ELSE IF ~ is_ascii_digit(Head(text)) THEN -1
    ELSE digits_value(Tail(text), acc * 10 + to_digit(Head(text)))

parse_u32(text) ==
    LET body == IF text # <<>> /\ Head(text) = "+" THEN Tail(text) ELSE text
    IN IF body = <<>> THEN -1 ELSE digits_value(body, 0)

PieceLetters == {"p", "r", "n", "b", "q", "k"}
piece_of_letter(chr) ==
    CASE chr = "p" -> "Pawn"
      [] chr = "r" -> "Rook"
      [] chr = "n" -> "Knight"
      [] chr = "b" -> "Bishop"
      [] chr = "q" -> "Queen"
      [] chr = "k" -> "King"

\* One rank of the board segment, written into the squares as it is read.
\* status: "ok", "error" (an early return) or "panic" (index out of bounds).
RECURSIVE parse_rank(_, _, _, _)
parse_rank(squares, seg_index, seg, filled_tiles) ==
    IF seg = <<>>
    THEN [squares |-> squares,
          status |-> IF filled_tiles # 8 THEN "error" ELSE "ok"]
    ELSE LET chr == Head(seg)
         IN IF is_ascii_digit(chr)
            THEN parse_rank(squares, seg_index, Tail(seg), filled_tiles + to_digit(chr))
            ELSE IF to_ascii_lowercase(chr) \notin PieceLetters
            THEN [squares |-> squares, status |-> "error"]
            ELSE IF seg_index * 8 + filled_tiles >= 8 * 8
            THEN [squares |-> squares, status |-> "panic"]
            ELSE parse_rank(
                     [squares EXCEPT ![seg_index * 8 + filled_tiles] =
                         Piece(piece_of_letter(to_ascii_lowercase(chr)),
                               IF is_uppercase(chr) THEN "White" ELSE "Black")],
                     seg_index, Tail(seg), filled_tiles + 1)

RECURSIVE parse_board(_, _, _)
parse_board(squares, board_segments, seg_index) ==
    IF seg_index >= Len(board_segments) THEN [squares |-> squares, status |-> "ok"]
    ELSE LET rank == parse_rank(squares, seg_index, board_segments[seg_index + 1], 0)
         IN IF rank.status # "ok" THEN rank
            ELSE parse_board(rank.squares, board_segments, seg_index + 1)

load_fen(g, fen) ==
    LET cleared == [g EXCEPT !.squares = [i \in 0..63 |-> NoPiece]]
        segments == split(fen, " ")
        board_segments == split(segments[1], "/")
        board == parse_board(cleared.squares, board_segments, 0)
        placed == [cleared EXCEPT !.squares = board.squares]
        turned == [placed EXCEPT !.turn = IF segments[2] = <<"w">> THEN "White"
                                          ELSE "Black"]
        rights == [turned EXCEPT
                      !.black_castling_kingside_available = contains(segments[3], "k"),
                      !.black_castling_queenside_available = contains(segments[3], "q"),
                      !.white_castling_kingside_available = contains(segments[3], "K"),
                      !.white_castling_queenside_available = contains(segments[3], "Q")]
        n == parse_u32(segments[5])
        clocked == IF n # -1 THEN [rights EXCEPT !.moves_since_capture = n] ELSE rights
    IN IF Len(segments) # 6 THEN [game |-> cleared, status |-> "error"]
       ELSE IF Len(board_segments) # 8 THEN [game |-> cleared, status |-> "error"]
       ELSE IF board.status # "ok" THEN [game |-> placed, status |-> board.status]
       ELSE IF segments[2] \notin {<<"w">>, <<"b">>}
       THEN [game |-> placed, status |-> "error"]
       ELSE [game |-> [clocked EXCEPT !.game_state = check_game_state(clocked)],
             status |-> "ok"]

StartFen == 
    <<"r", "n", "b", "q", "k", "b", "n", "r", "/", "p", "p", "p", "p", "p",
      "p", "p", "p", "/", "8", "/", "8", "/", "8", "/", "8", "/", "P", "P",
      "P", "P", "P", "P", "P", "P", "/", "R", "N", "B", "Q", "K", "B", "N",
      "R", " ", "w", " ", "K", "Q", "k", "q", " ", "-", " ", "0", " ", "1">>

new ==
    load_fen([squares |-> [i \in 0..63 |-> NoPiece],
              turn |-> "White",
              game_state |-> Normal,
              moves_since_capture |-> 0,
              en_passant_susceptible_pawn |-> NoPosition,
              white_castling_kingside_available |-> TRUE,
              white_castling_queenside_available |-> TRUE,
              black_castling_kingside_available |-> TRUE,
              black_castling_queenside_available |-> TRUE],
             StartFen).game

----------------------------------------------------------------------------
(* Position texts loaded into a new Game *)

\* FenCastle: both white castling moves in place, nothing attacked
\* 7k/8/8/8/8/8/P6P/R3K2R w KQ - 0 1
FenCastle ==
    <<"7", "k", "/", "8", "/", "8", "/", "8", "/", "8", "/", "8", "/", "P",
      "6", "P", "/", "R", "3", "K", "2", "R", " ", "w", " ", "K", "Q", " ",
      "-", " ", "0", " ", "1">>

\* FenCastleBlack: both black castling moves in place, nothing attacked
\* r3k2r/p6p/8/8/8/8/8/7K b kq - 0 1
FenCastleBlack ==
    <<"r", "3", "k", "2", "r", "/", "p", "6", "p", "/", "8", "/", "8", "/",
      "8", "/", "8", "/", "8", "/", "7", "K", " ", "b", " ", "k", "q", " ",
      "-", " ", "0", " ", "1">>

\* FenCastleCrossAttacked: queenside: the knight attacks d1, the square the king crosses
\* 7k/8/8/8/8/8/Pn6/R3K3 w Q - 0 1
FenCastleCrossAttacked ==
    <<"7", "k", "/", "8", "/", "8", "/", "8", "/", "8", "/", "8", "/", "P",
      "n", "6", "/", "R", "3", "K", "3", " ", "w", " ", "Q", " ", "-", " ",
      "0", " ", "1">>

\* FenCastleLandAttacked: kingside: the knight attacks g1, the square the king lands on
\* 7k/8/8/8/8/7n/8/4K2R w K - 0 1
FenCastleLandAttacked ==
    <<"7", "k", "/", "8", "/", "8", "/", "8", "/", "8", "/", "7", "n", "/",
      "8", "/", "4", "K", "2", "R", " ", "w", " ", "K", " ", "-", " ", "0",
      " ", "1">>

\* FenCastleRevoked: castling geometry in place, every right cleared by the load
\* 7k/8/8/8/8/8/P6P/R3K2R w - - 0 1
FenCastleRevoked ==
    <<"7", "k", "/", "8", "/", "8", "/", "8", "/", "8", "/", "8", "/", "P",
      "6", "P", "/", "R", "3", "K", "2", "R", " ", "w", " ", "-", " ", "-",
      " ", "0", " ", "1">>

\* FenEnPassant: c7-c5 lands beside the white pawn on d5
\* 7k/2p5/8/3P4/8/8/8/7K b - - 0 1
FenEnPassant ==
    <<"7", "k", "/", "2", "p", "5", "/", "8", "/", "3", "P", "4", "/", "8",
      "/", "8", "/", "8", "/", "7", "K", " ", "b", " ", "-", " ", "-", " ",
      "0", " ", "1">>

\* FenEnPassantCheck: c7-c5 lands beside d5 and attacks the king on b4
\* 7k/2p5/8/3P4/1K6/8/8/8 b - - 0 1
FenEnPassantCheck ==
    <<"7", "k", "/", "2", "p", "5", "/", "8", "/", "3", "P", "4", "/", "1",
      "K", "6", "/", "8", "/", "8", "/", "8", " ", "b", " ", "-", " ", "-",
      " ", "0", " ", "1">>

\* FenEnPassantPin: c7-c5 lands beside b5 on the rank of the white king and a black rook
\* 8/2p5/8/KP5r/8/8/8/7k b - - 0 1
FenEnPassantPin ==
    <<"8", "/", "2", "p", "5", "/", "8", "/", "K", "P", "5", "r", "/", "8",
      "/", "8", "/", "8", "/", "7", "k", " ", "b", " ", "-", " ", "-", " ",
      "0", " ", "1">>

\* FenFifty: halfmove clock at 50, white king attacked along the first rank
\* 7k/8/8/8/8/8/8/r3K3 w - - 50 1
FenFifty ==
    <<"7", "k", "/", "8", "/", "8", "/", "8", "/", "8", "/", "8", "/", "8",
      "/", "r", "3", "K", "3", " ", "w", " ", "-", " ", "-", " ", "5", "0",
      " ", "1">>

\* FenCheckmate: back-rank mate of White
\* 6k1/8/8/8/8/8/5PPP/r5K1 w - - 0 1
FenCheckmate ==
    <<"6", "k", "1", "/", "8", "/", "8", "/", "8", "/", "8", "/", "8", "/",
      "5", "P", "P", "P", "/", "r", "5", "K", "1", " ", "w", " ", "-", " ",
      "-", " ", "0", " ", "1">>

\* FenPromotion: white pawn one step from its last rank
\* 8/P7/8/8/8/8/8/k6K w - - 0 1
FenPromotion ==
    <<"8", "/", "P", "7", "/", "8", "/", "8", "/", "8", "/", "8", "/", "8",
      "/", "k", "6", "K", " ", "w", " ", "-", " ", "-", " ", "0", " ", "1">>

\* FenOnlyChecks: nobody attacked; the only move that keeps White's king safe, g6-g7, attacks the black king
\* 1r5k/8/6P1/8/8/8/7r/K7 w - - 0 1
FenOnlyChecks ==
    <<"1", "r", "5", "k", "/", "8", "/", "6", "P", "1", "/", "8", "/", "8",
      "/", "8", "/", "7", "r", "/", "K", "7", " ", "w", " ", "-", " ", "-",
      " ", "0", " ", "1">>

\* FenBlockWithCheck: White attacked on the a-file; the only answer, c2-a4, attacks the black king
\* rr2k3/8/8/8/8/8/2B5/K7 w - - 0 1
FenBlockWithCheck ==
    <<"r", "r", "2", "k", "3", "/", "8", "/", "8", "/", "8", "/", "8", "/",
      "8", "/", "2", "B", "5", "/", "K", "7", " ", "w", " ", "-", " ", "-",
      " ", "0", " ", "1">>

\* FenPromotionFifty: white pawn one step from its last rank, halfmove clock one below 50
\* 8/P7/8/8/8/8/8/k6K w - - 49 1
FenPromotionFifty ==
    <<"8", "/", "P", "7", "/", "8", "/", "8", "/", "8", "/", "8", "/", "8",
      "/", "k", "6", "K", " ", "w", " ", "-", " ", "-", " ", "4", "9", " ",
      "1">>

\* FenEnPassantOnlyReply: after c7-c5 the capture d5xc6 en passant is the only move White has; no king is attacked
\* 8/2p5/3p4/3P4/8/6k1/7p/7K b - - 0 1
FenEnPassantOnlyReply ==
    <<"8", "/", "2", "p", "5", "/", "3", "p", "4", "/", "3", "P", "4", "/",
      "8", "/", "6", "k", "1", "/", "7", "p", "/", "7", "K", " ", "b", " ",
      "-", " ", "-", " ", "0", " ", "1">>

\* FenBothAttacked: each king attacked by the other side's rook along its rank
\* k6R/8/8/8/8/8/8/K6r w - - 0 1
FenBothAttacked ==
    <<"k", "6", "R", "/", "8", "/", "8", "/", "8", "/", "8", "/", "8", "/",
      "8", "/", "K", "6", "r", " ", "w", " ", "-", " ", "-", " ", "0", " ",
      "1">>

Fens ==
    {FenCastle,
     FenCastleBlack,
     FenCastleCrossAttacked,
     FenCastleLandAttacked,
     FenCastleRevoked,
     FenEnPassant,
     FenEnPassantCheck,
     FenEnPassantPin,
     FenFifty,
     FenCheckmate,
     FenPromotion,
     FenOnlyChecks,
     FenBlockWithCheck,
     FenPromotionFifty,
     FenEnPassantOnlyReply,
     FenBothAttacked}

----------------------------------------------------------------------------
(* Malformed position texts *)

\* TextFiveFields: malformed: five fields
\* 7k/8/8/8/8/8/8/K7 w - - 0
TextFiveFields ==
    <<"7", "k", "/", "8", "/", "8", "/", "8", "/", "8", "/", "8", "/", "8",
      "/", "K", "7", " ", "w", " ", "-", " ", "-", " ", "0">>

\* TextSevenRanks: malformed: seven ranks
\* 7k/8/8/8/8/8/K7 w - - 0 1
TextSevenRanks ==
    <<"7", "k", "/", "8", "/", "8", "/", "8", "/", "8", "/", "8", "/", "K",
      "7", " ", "w", " ", "-", " ", "-", " ", "0", " ", "1">>

\* TextUnknownLetter: malformed: X is no piece letter
\* 7k/8/8/8/8/8/8/X7 w - - 0 1
TextUnknownLetter ==
    <<"7", "k", "/", "8", "/", "8", "/", "8", "/", "8", "/", "8", "/", "8",
      "/", "X", "7", " ", "w", " ", "-", " ", "-", " ", "0", " ", "1">>

\* TextShortRank: malformed: the last rank sums to 7 squares
\* 7k/8/8/8/8/8/8/K6 w - - 0 1
TextShortRank ==
    <<"7", "k", "/", "8", "/", "8", "/", "8", "/", "8", "/", "8", "/", "8",
      "/", "K", "6", " ", "w", " ", "-", " ", "-", " ", "0", " ", "1">>

MalformedTexts ==
    {TextFiveFields, TextSevenRanks, TextUnknownLetter, TextShortRank}

\* The texts a caller hands to load_fen on its Game.
Texts == Fens \cup MalformedTexts

----------------------------------------------------------------------------
(* The state machine: a caller that owns one Game and calls its operations. *)
(* A caller stops at the first call that returns Disallowed.                *)

Call(op, from, to, new_type, fen, result) ==
    [op |-> op, from |-> from, to |-> to, new_type |-> new_type, fen |-> fen,
     result |-> result]

InitFrom(texts) ==
    \E fen \in texts :
        /\ game = load_fen(new, fen).game
        /\ prev = new
        /\ last = Call("load_fen", NoPosition, NoPosition, "None", fen, "Returned")
        /\ calls = 0
        /\ loads = 0

Init == InitFrom(Fens)

MakeMove ==
    /\ calls < MaxCalls
    /\ last.result # "Disallowed"
    /\ \E from \in Positions, to \in Positions :
           \E r \in {make_move(game, from, to)} :
              /\ game' = r.game
              /\ last' = Call("make_move", from, to, "None", <<>>, r.result)
    /\ prev' = game
    /\ calls' = calls + 1
    /\ UNCHANGED loads

Promote ==
    /\ calls < MaxCalls
    /\ last.result # "Disallowed"
    /\ \E new_type \in PieceTypes :
           \E r \in {promote(game, new_type)} :
              /\ game' = r.game
              /\ last' = Call("promote", NoPosition, NoPosition, new_type, <<>>, r.result)
    /\ prev' = game
    /\ calls' = calls + 1
    /\ UNCHANGED loads

LoadFen ==
    /\ calls < MaxCalls
    /\ loads < MaxLoads
    /\ last.result # "Disallowed"
    /\ \E fen \in Texts :
           \E r \in {load_fen(game, fen)} :
              /\ r.status # "panic"
              /\ game' = r.game
              /\ last' = Call("load_fen", NoPosition, NoPosition, "None", fen, "Returned")
    /\ prev' = game
    /\ calls' = calls + 1
    /\ loads' = loads + 1

Next == MakeMove \/ Promote

Spec == Init /\ [][Next]_vars

\* The same caller, who may also load a position text into its Game.
NextLoad == MakeMove \/ Promote \/ LoadFen

SpecLoad == Init /\ [][NextLoad]_vars

----------------------------------------------------------------------------
(* Play from the standard starting position. The caller owns a new Game and *)
(* hands make_move squares of a small set; it stops at the first Disallowed. *)

InitStart ==
    /\ game = new
    /\ prev = new
    /\ last = Call("new", NoPosition, NoPosition, "None", <<>>, "Returned")
    /\ calls = 0
    /\ loads = 0

MakeMoveAmong(squares, limit) ==
    /\ calls < limit
    /\ last.result # "Disallowed"
    /\ \E from \in squares, to \in squares :
           \E r \in {make_move(game, from, to)} :
              /\ game' = r.game
              /\ last' = Call("make_move", from, to, "None", <<>>, r.result)
    /\ prev' = game
    /\ calls' = calls + 1
    /\ UNCHANGED loads

PromoteWithin(limit) ==
    /\ calls < limit
    /\ last.result # "Disallowed"
    /\ \E new_type \in PieceTypes :
           \E r \in {promote(game, new_type)} :
              /\ game' = r.game
              /\ last' = Call("promote", NoPosition, NoPosition, new_type, <<>>, r.result)
    /\ prev' = game
    /\ calls' = calls + 1
    /\ UNCHANGED loads

\* Knight moves only: g1, f3, g5, e4, f6 for White up to the black king on e8,
\* b8 and a6 for Black. No capture happens before the halfmove clock is at 50.
MaxShuffleCalls == 53

ShuffleSquares ==
    {<<6, 0>>, <<5, 2>>, <<6, 4>>, <<4, 3>>, <<5, 5>>, <<4, 7>>, <<1, 7>>, <<0, 5>>}

MakeMoveOnShuffle == MakeMoveAmong(ShuffleSquares, MaxShuffleCalls)

NextShuffle == MakeMoveOnShuffle

SpecShuffle == InitStart /\ [][NextShuffle]_vars

\* The white h-pawn walks h2-h4-h5-h6, takes on g7 and on h8; the black a-pawn
\* walks a7-a5-a4-a3, takes on b2 and on a1; the black knight may shuffle
\* between b8 and a6. Both pawns reach their last rank on a rook's corner.
MaxFlankCalls == 12

FlankSquares ==
    {<<7, 1>>, <<7, 3>>, <<7, 4>>, <<7, 5>>, <<6, 6>>, <<7, 7>>,
     <<0, 6>>, <<0, 4>>, <<0, 3>>, <<0, 2>>, <<1, 1>>, <<0, 0>>,
     <<1, 7>>, <<0, 5>>}

MakeMoveOnFlank == MakeMoveAmong(FlankSquares, MaxFlankCalls)

PromoteOnFlank == PromoteWithin(MaxFlankCalls)

NextFlank == MakeMoveOnFlank \/ PromoteOnFlank

SpecFlank == InitStart /\ [][NextFlank]_vars

----------------------------------------------------------------------------
(* Vocabulary of the properties *)

IsMakeMove == last.op = "make_move"
IsAllowed == last.result = "Allowed"
IsDisallowed == last.result = "Disallowed"

\* The piece the last make_move was asked to move, and the colour on move then.
MovedPiece == get_square(prev, last.from)
Mover == prev.turn

\* Some piece of the other colour has a pseudo-legal move onto a king of `color`.
KingAttacked(g, color) ==
    \E k \in Positions :
        /\ get_square(g, k) = Piece("King", color)
        /\ \E pos \in Positions :
               /\ get_square(g, pos) # NoPiece
               /\ get_square(g, pos).color # color
               /\ k \in get_pseudo_possible_moves(g, pos)

\* The call was stopped by the legality filter, not by an earlier check.
ReachedFilter ==
    /\ IsMakeMove
    /\ prev.game_state[1] \notin {"AwaitingPromotion", "Checkmate"}
    /\ MovedPiece # NoPiece
    /\ MovedPiece.color = Mover
    /\ last.to \in get_pseudo_possible_moves(prev, last.from)

Rights(g) ==
    <<g.white_castling_kingside_available, g.white_castling_queenside_available,
      g.black_castling_kingside_available, g.black_castling_queenside_available>>

HomeRank(color) == IF color = "White" THEN 0 ELSE 7
KingHome(color) == <<4, HomeRank(color)>>
RookCorner(color, side) ==
    <<IF side = "kingside" THEN 7 ELSE 0, HomeRank(color)>>
CastleTarget(color, side) ==
    <<IF side = "kingside" THEN 6 ELSE 2, HomeRank(color)>>
RookTarget(color, side) ==
    <<IF side = "kingside" THEN 5 ELSE 3, HomeRank(color)>>
Between(color, side) ==
    {<<x, HomeRank(color)>> : x \in IF side = "kingside" THEN {5, 6} ELSE {1, 2, 3}}
KingPath(color, side) ==
    {<<x, HomeRank(color)>> : x \in IF side = "kingside" THEN {5, 6} ELSE {3, 2}}
Right(g, color, side) ==
    CASE color = "White" /\ side = "kingside" -> g.white_castling_kingside_available
      [] color = "White" /\ side = "queenside" -> g.white_castling_queenside_available
      [] color = "Black" /\ side = "kingside" -> g.black_castling_kingside_available
      [] color = "Black" /\ side = "queenside" -> g.black_castling_queenside_available
Sides == {"kingside", "queenside"}

\* King of the colour on move on its home square, rook on the corner, the
\* squares between them empty.
CastleGeometry(g, side) ==
    /\ get_square(g, KingHome(g.turn)) = Piece("King", g.turn)
    /\ get_square(g, RookCorner(g.turn, side)) = Piece("Rook", g.turn)
    /\ \A sq \in Between(g.turn, side) : get_square(g, sq) = NoPiece

\* A square of the king's path on which the king would stand attacked.
PathAttacked(g, side) ==
    \E sq \in KingPath(g.turn, side) :
        KingAttacked(simulate_move(g, KingHome(g.turn), sq), g.turn)

\* The last call asked the king on its home square to step two files to `side`.
CastleAttempt(side) ==
    /\ IsMakeMove
    /\ last.from = KingHome(Mover)
    /\ last.to = CastleTarget(Mover, side)

----------------------------------------------------------------------------
(* Properties *)

\* C1: make_move returns Allowed, or returns Disallowed and leaves every field
\* of the Game as it was.
MakeMoveAllOrNothing ==
    IsMakeMove => (IsAllowed \/ (IsDisallowed /\ game = prev))

\* A move that reached the legality filter and was rejected by it.
MakeMoveRejectedByFilter ==
    ReachedFilter /\ IsDisallowed /\ game = prev

\* C2: turn flips on every make_move that returns Allowed and stays on every
\* make_move that returns Disallowed.
TurnAlternates ==
    IsMakeMove => IF IsAllowed THEN game.turn # prev.turn /\ game.turn \in Colors
                  ELSE game.turn = prev.turn

\* Two accepted moves in a row: the turn is back with the colour that began.
TurnFlippedTwice ==
    /\ IsMakeMove /\ IsAllowed /\ calls = 2
    /\ MovedPiece.color = prev.turn /\ game.turn # prev.turn

\* C3: after an Allowed make_move the king of the colour that moved is not
\* attacked in the resulting position.
LegalityFilterSound ==
    (IsMakeMove /\ IsAllowed) => ~ KingAttacked(game, Mover)

\* C4: in AwaitingPromotion and in Checkmate make_move returns Disallowed and
\* changes nothing; Checkmate survives make_move and promote; AwaitingPromotion
\* survives make_move.
BlockedStatesRejectMoves ==
    /\ (IsMakeMove /\ prev.game_state[1] \in {"AwaitingPromotion", "Checkmate"})
           => (IsDisallowed /\ game = prev)
    /\ (last.op \in {"make_move", "promote"} /\ prev.game_state[1] = "Checkmate")
           => game.game_state = prev.game_state

\* A geometrically possible move of the side on move, refused while a promotion
\* is pending.
MoveRefusedWhileAwaitingPromotion ==
    /\ IsMakeMove /\ IsDisallowed
    /\ prev.game_state[1] = "AwaitingPromotion"
    /\ MovedPiece # NoPiece /\ MovedPiece.color = Mover
    /\ last.to \in get_pseudo_possible_moves(prev, last.from)

\* A geometrically possible move of the mated side, refused after checkmate.
MoveRefusedAfterCheckmate ==
    /\ IsMakeMove /\ IsDisallowed
    /\ prev.game_state = Checkmate(Mover)
    /\ MovedPiece # NoPiece /\ MovedPiece.color = Mover
    /\ last.to \in get_pseudo_possible_moves(prev, last.from)

\* C5: with the castling geometry in place, the right set and no square of the
\* king's path attacked, the two-file king move is Allowed and puts the king on
\* the g/c file, the rook beside it and nothing on the corner.
CastlingExecuted ==
    \A side \in Sides :
        (/\ CastleAttempt(side)
         /\ CastleGeometry(prev, side)
         /\ Right(prev, Mover, side)
         /\ ~ PathAttacked(prev, side))
        => /\ IsAllowed
           /\ get_square(game, CastleTarget(Mover, side)) = Piece("King", Mover)
           /\ get_square(game, RookTarget(Mover, side)) = Piece("Rook", Mover)
           /\ get_square(game, RookCorner(Mover, side)) = NoPiece

\* C6: the two-file king move is Disallowed when a square of the king's path
\* is attacked, the right being set and the squares between king and rook empty.
CastlingThroughAttackRejected ==
    \A side \in Sides :
        (/\ CastleAttempt(side)
         /\ CastleGeometry(prev, side)
         /\ Right(prev, Mover, side)
         /\ PathAttacked(prev, side))
        => IsDisallowed

\* The queenside attempt across an attacked d-file square, refused.
CastlingAcrossAttackRefused ==
    /\ CastleAttempt("queenside")
    /\ CastleGeometry(prev, "queenside")
    /\ Right(prev, Mover, "queenside")
    /\ KingAttacked(simulate_move(prev, KingHome(Mover), RookTarget(Mover, "queenside")),
                    Mover)
    /\ ~ KingAttacked(simulate_move(prev, KingHome(Mover),
                                    CastleTarget(Mover, "queenside")), Mover)
    /\ IsDisallowed

\* C7: with the right of a side cleared, a two-file move of that colour's king
\* toward that side is Disallowed or leaves every rook of the colour in place.
RevokedCastlingKeepsRook ==
    \A side \in Sides :
        (/\ IsMakeMove
         /\ MovedPiece = Piece("King", Mover)
         /\ last.to = <<last.from[1] + (IF side = "kingside" THEN 2 ELSE -2), last.from[2]>>
         /\ ~ Right(prev, Mover, side))
        => \/ IsDisallowed
           \/ \A pos \in Positions :
                  get_square(prev, pos) = Piece("Rook", Mover)
                      => get_square(game, pos) = Piece("Rook", Mover)

\* The kingside attempt with the geometry in place and the right cleared.
RevokedCastlingAttempted ==
    /\ CastleAttempt("kingside")
    /\ CastleGeometry(prev, "kingside")
    /\ ~ Right(prev, Mover, "kingside")
    /\ IsDisallowed
    /\ get_square(game, RookCorner(Mover, "kingside")) = Piece("Rook", Mover)

\* C8: over make_move and promote no castling right goes from false to true.
RightsNeverRestored ==
    last.op \in {"make_move", "promote"} =>
        \A i \in 1..4 : Rights(game)[i] => Rights(prev)[i]

\* A right cleared by an earlier move is still cleared after the next accepted
\* move, while another right is still set.
ClearedRightStaysCleared ==
    /\ IsMakeMove /\ IsAllowed /\ calls = 2
    /\ \E i \in 1..4 : ~ Rights(prev)[i] /\ ~ Rights(game)[i]
    /\ \E i \in 1..4 : Rights(game)[i]

\* C9: an Allowed king move clears both rights of the mover, an Allowed rook
\* move from a corner clears the right of that corner, and nothing else changes
\* any right.
RightsAfterMove ==
    (IsMakeMove /\ IsAllowed) =>
        LET before == Rights(prev)
            after == Rights(game)
            corner == CASE last.from = <<7, 0>> -> 1
                        [] last.from = <<0, 0>> -> 2
                        [] last.from = <<7, 7>> -> 3
                        [] last.from = <<0, 7>> -> 4
                        [] OTHER -> 0
            own == IF Mover = "White" THEN {1, 2} ELSE {3, 4}
        IN CASE MovedPiece.piece_type = "King" ->
                    \A i \in 1..4 : after[i] = (IF i \in own THEN FALSE ELSE before[i])
             [] MovedPiece.piece_type = "Rook" ->
                    \A i \in 1..4 : after[i] = (IF i = corner THEN FALSE ELSE before[i])
             [] OTHER -> after = before

\* A rook leaves h1 or h8 while both rights of its colour are set: the
\* kingside right goes, the queenside right stays.
RookMoveClearedOneRight ==
    /\ IsMakeMove /\ IsAllowed
    /\ MovedPiece = Piece("Rook", Mover)
    /\ last.from = RookCorner(Mover, "kingside")
    /\ Right(prev, Mover, "kingside") /\ Right(prev, Mover, "queenside")
    /\ ~ Right(game, Mover, "kingside") /\ Right(game, Mover, "queenside")

\* C10: right after a pawn advanced two ranks and landed beside a pawn of the
\* side to move, that pawn's diagonal move onto the empty square behind it is
\* Allowed, leaves the capturing pawn on the destination and empties the square
\* of the advanced pawn.
EnPassantAttempt ==
    /\ IsMakeMove
    /\ MovedPiece = Piece("Pawn", Mover)
    /\ prev.en_passant_susceptible_pawn = <<last.to[1], last.from[2]>>
    /\ get_square(prev, prev.en_passant_susceptible_pawn) = Piece("Pawn", Not(Mover))
    /\ Abs(last.to[1] - last.from[1]) = 1
    /\ last.to = forward(<<last.to[1], last.from[2]>>, Mover, 1)
    /\ get_square(prev, last.to) = NoPiece

EnPassantCaptureAllowed ==
    EnPassantAttempt =>
        /\ IsAllowed
        /\ get_square(game, last.to) = Piece("Pawn", Mover)
        /\ get_square(game, <<last.to[1], last.from[2]>>) = NoPiece

\* A pawn of the mover stepped diagonally onto an empty square and the move was
\* Allowed: an en passant capture of the pawn beside its origin.
EnPassantCaptured ==
    /\ IsMakeMove /\ IsAllowed
    /\ MovedPiece.piece_type = "Pawn"
    /\ Abs(last.to[1] - last.from[1]) = 1
    /\ get_square(prev, last.to) = NoPiece

TwoRankAdvance(call, board) ==
    /\ call.op = "make_move" /\ call.result = "Allowed"
    /\ get_square(board, call.to).piece_type = "Pawn"
    /\ Abs(call.from[2] - call.to[2]) = 2

\* C11: after every Allowed make_move en_passant_susceptible_pawn is the
\* destination when the moved piece is a pawn that advanced two ranks and absent
\* otherwise; and an Allowed en passant capture takes the pawn that advanced
\* two ranks in the call immediately before it.
EnPassantTargetLivesOneMove ==
    /\ [] ((IsMakeMove /\ IsAllowed) =>
              game.en_passant_susceptible_pawn =
                  IF TwoRankAdvance(last, game) THEN last.to ELSE NoPosition)
    /\ [][EnPassantCaptured' =>
              /\ TwoRankAdvance(last, game)
              /\ last.to = <<last'.to[1], last'.from[2]>>
              /\ game.en_passant_susceptible_pawn = last.to]_vars

\* The capture right after the advance: the target named the advanced pawn
\* before the capture and is absent after it.
EnPassantTargetSpent ==
    /\ EnPassantCaptured /\ calls = 2
    /\ prev.en_passant_susceptible_pawn = <<last.to[1], last.from[2]>>
    /\ game.en_passant_susceptible_pawn = NoPosition

\* C12: on every Allowed make_move moves_since_capture becomes 0 when the move
\* captured a piece, an en passant capture included, and its previous value
\* plus one otherwise.
HalfmoveClockAfterMove ==
    (IsMakeMove /\ IsAllowed) =>
        game.moves_since_capture =
            IF get_square(prev, last.to) # NoPiece \/ EnPassantCaptured
            THEN 0
            ELSE prev.moves_since_capture + 1

\* The last call classified the Game: a position load, a committed move or a
\* successful promote.
Classified == last.result \in {"Returned", "Allowed"}

\* Some piece of `color` has a destination that passes the legality filter.
HasLegalMove(g, color) ==
    \E from \in Positions :
        /\ get_square(g, from) # NoPiece
        /\ get_square(g, from).color = color
        /\ get_possible_moves(g, from) # {}

NobodyAttacked(g) == ~ KingAttacked(g, "White") /\ ~ KingAttacked(g, "Black")

Stalemate(g) == NobodyAttacked(g) /\ ~ HasLegalMove(g, g.turn)

\* C13: with moves_since_capture at 50 or more a classified Game is a Draw,
\* or awaits a promotion; below 50 a Draw is reported only for stalemate.
FiftyMoveRule ==
    Classified =>
        /\ game.moves_since_capture >= 50
               => (game.game_state = Draw \/ game.game_state[1] = "AwaitingPromotion")
        /\ (game.moves_since_capture < 50 /\ game.game_state = Draw)
               => Stalemate(game)

\* C14: in a classified Game with moves_since_capture below 50 and no pending
\* promotion, a colour whose king is attacked is in Checkmate exactly when it
\* has no legal move and in Check exactly when it has one.
CheckVersusCheckmate ==
    (/\ Classified
     /\ game.moves_since_capture < 50
     /\ game.game_state[1] # "AwaitingPromotion")
    => \A c \in Colors :
           KingAttacked(game, c) =>
               /\ game.game_state = Checkmate(c) <=> ~ HasLegalMove(game, c)
               /\ game.game_state = Check(c) <=> HasLegalMove(game, c)

\* C15: in a classified Game with moves_since_capture below 50, no pending
\* promotion and no king attacked, game_state is Draw when the side to move has
\* no legal move and Normal otherwise, whatever the other side can do.
StalemateIsDraw ==
    (/\ Classified
     /\ game.moves_since_capture < 50
     /\ game.game_state[1] # "AwaitingPromotion"
     /\ NobodyAttacked(game))
    => game.game_state = IF HasLegalMove(game, game.turn) THEN Normal ELSE Draw

IsPromote == last.op = "promote"

\* The conditions under which promote is legal, on the Game before the call.
PromoteLegal ==
    /\ prev.game_state[1] = "AwaitingPromotion"
    /\ get_square(prev, prev.game_state[2]).piece_type = "Pawn"
    /\ last.new_type \in {"Knight", "Bishop", "Rook", "Queen"}

\* C16: promote returns Allowed exactly when the state is AwaitingPromotion(pos),
\* pos holds a pawn and new_type is Knight, Bishop, Rook or Queen; it then puts a
\* piece of new_type of the pawn's colour on pos, changes no other field and
\* stores the classification of the result. Otherwise it returns Disallowed and
\* the Game is as before.
PromoteContract ==
    IsPromote =>
        IF PromoteLegal
        THEN /\ IsAllowed
             /\ game.squares =
                    [prev.squares EXCEPT ![SquareIndex(prev.game_state[2])] =
                        Piece(last.new_type,
                              get_square(prev, prev.game_state[2]).color)]
             /\ game.game_state = check_game_state(game)
             /\ [game EXCEPT !.squares = prev.squares,
                             !.game_state = prev.game_state] = prev
        ELSE IsDisallowed /\ game = prev

\* A pawn on its last rank replaced by a piece of its colour, the state no
\* longer AwaitingPromotion.
PawnPromoted ==
    /\ IsPromote /\ IsAllowed
    /\ get_square(prev, prev.game_state[2]).piece_type = "Pawn"
    /\ get_square(game, prev.game_state[2]).piece_type = last.new_type
    /\ game.game_state[1] # "AwaitingPromotion"

\* The squares holding a white pawn on rank 7 or a black pawn on rank 0.
LastRankPawns(g) ==
    {p \in Positions :
        \/ p[2] = 7 /\ get_square(g, p) = Piece("Pawn", "White")
        \/ p[2] = 0 /\ get_square(g, p) = Piece("Pawn", "Black")}

\* C17: after an Allowed make_move that leaves a pawn on its last rank,
\* game_state is AwaitingPromotion of the square of such a pawn, whatever the
\* classifier returned; after one that leaves none, it is not AwaitingPromotion.
PromotionSupersedes ==
    (IsMakeMove /\ IsAllowed) =>
        IF LastRankPawns(game) # {}
        THEN /\ game.game_state[1] = "AwaitingPromotion"
             /\ game.game_state[2] \in LastRankPawns(game)
        ELSE game.game_state[1] # "AwaitingPromotion"

\* The pawn's step to the last rank brings the halfmove clock to 50: the
\* classifier says Draw, the stored state awaits the promotion.
PromotionSupersedesDraw ==
    /\ IsMakeMove /\ IsAllowed
    /\ get_square(game, last.to) = Piece("Pawn", Mover)
    /\ game.game_state = AwaitingPromotion(last.to)
    /\ check_game_state(game) = Draw

\* The board after the piece on `from` went to `to`, a pawn taken en passant
\* removed.
BoardAfter(g, from, to) ==
    simulate_move(capture_en_passant(g, from, to, get_square(g, from),
                                     get_square(g, to) # NoPiece),
                  from, to)

\* The destinations the claim describes: pseudo-legal, not held by the piece's
\* own colour, and leaving the king of the piece's colour unattacked.
SafeDestinations(g, from) ==
    {to \in get_pseudo_possible_moves(g, from) :
        ~ KingAttacked(BoardAfter(g, from, to), get_square(g, from).color)}

\* C18: in every Game and for every square, get_possible_moves(from) is the set
\* of pseudo-legal destinations of the piece on from that are not held by its
\* own colour and after which its own king is not attacked; for an empty square
\* it is empty.
PossibleMovesExact ==
    Classified =>
        \A from \in Positions :
            /\ get_possible_moves(game, from) = SafeDestinations(game, from)
            /\ get_square(game, from) = NoPiece => get_possible_moves(game, from) = {}

\* C19: in a Game that is neither AwaitingPromotion nor Checkmate, for a piece
\* of the colour on move, make_move(from, to) returns Allowed exactly when to is
\* in get_possible_moves(from).
ValidationAgreesWithEnumeration ==
    (/\ IsMakeMove
     /\ prev.game_state[1] \notin {"AwaitingPromotion", "Checkmate"}
     /\ MovedPiece # NoPiece
     /\ MovedPiece.color = Mover)
    => (IsAllowed <=> last.to \in get_possible_moves(prev, last.from))

\* A pseudo-legal move refused by the legality filter and absent from the
\* enumeration, while the enumeration offers another destination.
FilterRefusalAgreed ==
    /\ ReachedFilter /\ IsDisallowed
    /\ last.to \notin get_possible_moves(prev, last.from)
    /\ get_possible_moves(prev, last.from) # {}

IsLoad == last.op = "load_fen" /\ calls > 0

\* C20: loading a malformed text (wrong field count, wrong rank count, unknown
\* piece letter, rank not summing to 8) is reported as a failure and leaves
\* every field of the Game as it was.
MalformedLoadLeavesGame ==
    (IsLoad /\ last.fen \in MalformedTexts) =>
        /\ last.result = "Failed"
        /\ game = prev

\* C21: after an Allowed make_move that does not end in AwaitingPromotion the
\* stored game_state is the classification of the Game as stored, the new
\* en passant target included.
StateClassifiesStoredGame ==
    (IsMakeMove /\ IsAllowed /\ game.game_state[1] # "AwaitingPromotion")
        => game.game_state = check_game_state(game)

\* The pawn destinations as the rules state them, for the pawn on `from`.
PawnDestinations(g, from) ==
    LET color == get_square(g, from).color
        dir == IF color = "White" THEN 1 ELSE -1
        start == IF color = "White" THEN 1 ELSE 6
        x == from[1]
        y == from[2]
    IN {to \in Positions :
           \/ to = <<x, y + dir>> /\ get_square(g, to) = NoPiece
           \/ /\ to = <<x, y + 2 * dir>>
              /\ y = start
              /\ get_square(g, <<x, y + dir>>) = NoPiece
              /\ get_square(g, to) = NoPiece
           \/ /\ to[2] = y + dir
              /\ Abs(to[1] - x) = 1
              /\ IF get_square(g, to) # NoPiece
                 THEN get_square(g, to).color = Not(color)
                 ELSE /\ g.en_passant_susceptible_pawn = <<to[1], y>>
                      /\ get_square(g, <<to[1], y>>) = Piece("Pawn", Not(color))}

PawnSquares(g) == {p \in Positions : get_square(g, p).piece_type = "Pawn"}

\* C22: for every pawn of a classified Game, pseudo_validate_pawn_move accepts
\* exactly the destinations of the pawn rules: one step forward onto an empty
\* square, two from the starting rank over empty squares, a diagonal step onto
\* an opposing piece, or onto an empty square beside the en passant target.
PawnMovesExact ==
    Classified =>
        \A from \in PawnSquares(game) :
            {to \in Positions : pseudo_validate_pawn_move(game, from, to)}
                = PawnDestinations(game, from)

\* After an Allowed move some pawn has a diagonal destination on an empty
\* square: the en passant step.
PawnBesideEnPassantTarget ==
    /\ IsMakeMove /\ IsAllowed
    /\ \E from \in PawnSquares(game) :
           \E to \in Positions :
               /\ pseudo_validate_pawn_move(game, from, to)
               /\ to[1] # from[1]
               /\ get_square(game, to) = NoPiece

KingSquares(g, color) == {p \in Positions : get_square(g, p) = Piece("King", color)}

\* C23: handed the squares of the two kings, check_check names the side on
\* move when both kings are attacked, the colour of the attacked king when one
\* is, and nobody when none is.
AttackTieBreak ==
    Classified =>
        \A wk \in KingSquares(game, "White"), bk \in KingSquares(game, "Black") :
            check_check(game, wk, bk) =
                CASE KingAttacked(game, "White") /\ KingAttacked(game, "Black") -> game.turn
                  [] KingAttacked(game, "White") /\ ~ KingAttacked(game, "Black") -> "White"
                  [] ~ KingAttacked(game, "White") /\ KingAttacked(game, "Black") -> "Black"
                  [] OTHER -> "None"

\* A loaded position with both kings attacked, classified as a check or a
\* checkmate of the side on move.
BothKingsAttacked ==
    /\ calls = 0
    /\ KingAttacked(game, "White") /\ KingAttacked(game, "Black")
    /\ game.game_state \in {Check(game.turn), Checkmate(game.turn)}
    /\ check_check(game, find_king(game, "White"), find_king(game, "Black")) = game.turn

\* C24: in every Game reached from the standard starting position by make_move
\* and promote the board holds exactly one white king and one black king.
OneKingEach ==
    \A c \in Colors : Cardinality(KingSquares(game, c)) = 1

PromotionTypes == {"Knight", "Bishop", "Rook", "Queen"}

\* C25: in every Game played from the standard starting position whose state
\* is AwaitingPromotion, promote with Knight, Bishop, Rook or Queen returns
\* Allowed and leaves a state that is not AwaitingPromotion; and the state
\* after every such promote that was called is not AwaitingPromotion.
PromotionNeverDeadlocks ==
    /\ game.game_state[1] = "AwaitingPromotion" =>
           \A new_type \in PromotionTypes :
              \E r \in {promote(game, new_type)} :
                 /\ r.result = "Allowed"
                 /\ r.game.game_state[1] # "AwaitingPromotion"
    /\ (IsPromote /\ prev.game_state[1] = "AwaitingPromotion"
            /\ last.new_type \in PromotionTypes) =>
           (IsAllowed /\ game.game_state[1] # "AwaitingPromotion")

\* The h-pawn that left h2 was promoted on h8 and Black is to play on.
PlayResumesAfterPromotion ==
    /\ IsPromote /\ IsAllowed
    /\ prev.game_state = AwaitingPromotion(<<7, 7>>)
    /\ get_square(game, <<7, 7>>) = Piece(last.new_type, "White")
    /\ game.turn = "Black"
    /\ game.game_state = Normal

\* C26: in every Game played from the standard starting position,
\* AwaitingPromotion(p) implies that p holds a pawn on its last rank, that the
\* pawn is of the colour not on move, and that no other pawn is on its last rank.
AwaitedPawnIsTheOnlyOne ==
    game.game_state[1] = "AwaitingPromotion" =>
        /\ LastRankPawns(game) = {game.game_state[2]}
        /\ get_square(game, game.game_state[2]).color = Not(game.turn)

\* The black a-pawn that left a7 stands on a1 after its capture there.
BlackPawnAwaitsPromotion ==
    /\ IsMakeMove /\ IsAllowed
    /\ game.game_state = AwaitingPromotion(<<0, 0>>)
    /\ get_square(game, <<0, 0>>) = Piece("Pawn", "Black")
    /\ game.turn = "White"

\* C27: in every Game played from the standard starting position a castling
\* flag that is set implies the king of that colour on its home square and a
\* rook of that colour on the corner of that side.
SetRightMeansKingAndRookHome ==
    \A color \in {"White", "Black"}, side \in Sides :
        Right(game, color, side) =>
            /\ get_square(game, KingHome(color)) = Piece("King", color)
            /\ get_square(game, RookCorner(color, side)) = Piece("Rook", color)

\* C28: the Game after loading a well-formed text is the Game that a new Game
\* becomes when the same text is loaded into it, whatever was played before
\* the load.
LoadReplacesGame ==
    (IsLoad /\ last.fen \in Fens) => game = load_fen(new, last.fen).game

====
